---- MODULE Spec2Model ----
(***************************************************************************)
(* Model of notebooks/computer_vision/raw/tut6.ipynb: an input pipeline    *)
(* (image_dataset_from_directory -> map(convert_to_float) -> cache ->      *)
(* prefetch), a Sequential model (RandomFlip, RandomContrast, frozen       *)
(* pretrained base, trainable head) and model.fit with validation data.    *)
(* The library calls are modelled by what they do in the TensorFlow        *)
(* release the notebook targets (TF 2.2 .. 2.6: "new feature in TF 2.2",   *)
(* layers.experimental.preprocessing, Python 3.6 kernel).                  *)
(*                                                                         *)
(* Tensors: a batch is a sequence of images, an image a sequence of rows,  *)
(* a row a sequence of pixels, a pixel a sequence of channel values.       *)
(* float32 values are fixed-point integers with One standing for 1.0.      *)
(***************************************************************************)
EXTENDS Integers, Sequences, FiniteSets

\* ------------------------------------------------------------------ bounds
\* number of intensity steps sampled out of the uint8 range
PixLevels == 2
\* image height / width / channel count of the small test tensors
MaxH == 2
MaxW == 2
MaxC == 2
\* largest batch handed to the preprocessing layers on their own
MaxBatch == 2
\* resolution of one uniform random draw: u / UniformRes, u in 0..UniformRes-1
UniformRes == 4
\* largest number of values in one test batch
MaxValues == 4
\* how often the flip layer is applied to its own output
MaxFlips == 2

\* ------------------------------------------------------- program constants
Uint8Max == 255
\* fixed-point units per uint8 step: float 1.0 is One
Quantum == 4
One == Uint8Max * Quantum
\* RandomContrast(0.5), in percent
ContrastFactor == 50
Percent == 100

\* ---------------------------------------------------------------- tensors
Height(img) == Len(img)
Width(img) == Len(img[1])
Channels(img) == Len(img[1][1])
Shape(img) == <<Height(img), Width(img), Channels(img)>>

RECURSIVE SumSeq(_)
SumSeq(s) == IF s = <<>> THEN 0 ELSE s[1] + SumSeq(Tail(s))

\* uint8 sample values 0 .. 255
Uint8Samples == {(Uint8Max * i) \div PixLevels : i \in 0..PixLevels}

Uint8Images(h, w, c) == [1..h -> [1..w -> [1..c -> Uint8Samples]]]

\* tf.image.convert_image_dtype(image, tf.float32) on a uint8 image:
\* cast and scale by 1/255
convert_image_dtype(image) ==
    [r \in 1..Height(image) |->
        [x \in 1..Width(image) |->
            [k \in 1..Channels(image) |-> image[r][x][k] * (One \div Uint8Max)]]]

\* the data pipeline's map function: the label passes through
convert_to_float(image, label) == <<convert_image_dtype(image), label>>

\* variant: the mirrored column index is off by one
flip_left_right_OffByOne(img) ==
    [r \in 1..Height(img) |->
        [x \in 1..Width(img) |->
            img[r][IF Width(img) - x >= 1 THEN Width(img) - x ELSE 1]]]

\* tf.image.flip_left_right on one image: reverse the width axis
flip_left_right(img) ==
    [r \in 1..Height(img) |->
        [x \in 1..Width(img) |-> img[r][Width(img) + 1 - x]]]

\* round(uniform) of tf.image.random_flip_left_right: flip iff u >= 1/2
FlipDecision(u) == 2 * u >= UniformRes

\* tf.image.random_flip_left_right on a batch: one draw per image
random_flip_left_right(images, us) ==
    [i \in 1..Len(images) |->
        IF FlipDecision(us[i]) THEN flip_left_right(images[i]) ELSE images[i]]

\* RandomFlip('horizontal').call(inputs, training)
RandomFlip(inputs, training, us) ==
    IF training THEN random_flip_left_right(inputs, us) ELSE inputs

\* mean of one channel of one image over height and width
ChannelMean(img, k) ==
    SumSeq([r \in 1..Height(img) |-> SumSeq([x \in 1..Width(img) |-> img[r][x][k]])])
        \div (Height(img) * Width(img))

\* variant: the mean is not added back
adjust_contrast_NoMean(images, pct) ==
    [i \in 1..Len(images) |->
        LET img == images[i]
            mean == [k \in 1..Channels(img) |-> ChannelMean(img, k)]
        IN  [r \in 1..Height(img) |->
                [x \in 1..Width(img) |->
                    [k \in 1..Channels(img) |->
                        ((img[r][x][k] - mean[k]) * pct) \div Percent]]]]

\* tf.image.adjust_contrast on float images: (x - mean) * factor + mean per
\* channel of each image; float in, float out, no saturation
adjust_contrast(images, pct) ==
    [i \in 1..Len(images) |->
        LET img == images[i]
            mean == [k \in 1..Channels(img) |-> ChannelMean(img, k)]
        IN  [r \in 1..Height(img) |->
                [x \in 1..Width(img) |->
                    [k \in 1..Channels(img) |->
                        ((img[r][x][k] - mean[k]) * pct) \div Percent + mean[k]]]]]

\* random_uniform([], 1 - factor, 1 + factor): one factor per call, in percent
ContrastDraw(u) ==
    (Percent - ContrastFactor) + (u * 2 * ContrastFactor) \div UniformRes

\* variant: the contrast change is applied whatever the training argument
RandomContrast_AlwaysOn(inputs, training, u) == adjust_contrast(inputs, ContrastDraw(u))

\* RandomContrast(0.5).call(inputs, training)
RandomContrast(inputs, training, u) ==
    IF training THEN adjust_contrast(inputs, ContrastDraw(u)) ELSE inputs

Uniform == 0..(UniformRes - 1)

\* ------------------------------------------------------- the training run
\* bounds of the training run
\* the training directory holds at most MaxBatches full batches
MaxBatches == 2
\* the validation directory holds at most MaxValBatches full batches
MaxValBatches == 1
\* elements the prefetch stage may hold (AUTOTUNE picks the size)
PrefetchBuf == 2
\* abstract value range of one weight tensor
WeightVals == 2
\* resolution of the sigmoid output: prob / ProbRes
ProbRes == 4
\* program constants of the run
BatchSize == 64
Epochs == 30
Seed == 31415
RngMod == 65537

Datasets == {"train", "valid"}
WeightedLayers == {"base", "dense1", "dense2"}

\* variant: the base is left trainable
Trainable_All(layer) == TRUE

\* pretrained_base.trainable = False; the Dense layers keep the default
Trainable(layer) == layer # "base"

\* ---- image_dataset_from_directory
\* the i-th decoded file of a directory: a 1 x 2 x 1 uint8 image, distinct
\* per file, and its inferred binary label
FileImage(i) == << << <<i % (Uint8Max + 1)>>, <<(3 * i) % (Uint8Max + 1)>> >> >>
FileLabel(i) == i % 2

Min(a, b) == IF a < b THEN a ELSE b

\* variant: one batch too many when n is a multiple of the batch size
NumBatches_OffByOne(n) == n \div BatchSize + 1

\* number of batches of n files: the last batch may be partial
NumBatches(n) == (n + BatchSize - 1) \div BatchSize

\* batch b (1-based) of a directory of n files, batch_size = 64
DirectoryBatch(n, b) ==
    LET lo == (b - 1) * BatchSize
        len == Min(BatchSize, n - lo)
    IN  [images |-> [j \in 1..len |-> FileImage(lo + j)],
         labels |-> [j \in 1..len |-> FileLabel(lo + j)]]

image_dataset_from_directory(n) ==
    [b \in 1..NumBatches(n) |-> DirectoryBatch(n, b)]

\* variant: the augmentation sits in the pipeline, in front of the cache
MapConvert_Augmented(elem) ==
    [images |-> [j \in 1..Len(elem.images) |->
                    flip_left_right(convert_to_float(elem.images[j], elem.labels[j])[1])],
     labels |-> [j \in 1..Len(elem.labels) |->
                    convert_to_float(elem.images[j], elem.labels[j])[2]]]

\* Dataset.map(convert_to_float) on one batched element
MapConvert(elem) ==
    [images |-> [j \in 1..Len(elem.images) |->
                    convert_to_float(elem.images[j], elem.labels[j])[1]],
     labels |-> [j \in 1..Len(elem.labels) |->
                    convert_to_float(elem.images[j], elem.labels[j])[2]]]

\* directory sizes explored: around the batch boundaries
DirSizes(maxb) ==
    {n \in 1..(maxb * BatchSize) : n % BatchSize \in {0, 1}}

\* ---- random ops under tf.random.set_seed
\* set_seed(): the global seed; each random op derives its own key from it
\* and keeps a counter of the numbers it has produced (counter-based
\* generator)
set_seed == Seed
OpId(op) == IF op = "flip" THEN 1 ELSE 2
OpSeed(global, op) == (global + 7 * op) % RngMod
Philox(key, ctr) == ((key + ctr) * 75 + 74) % RngMod
RngUniform(key, ctr) == (Philox(key, ctr) \div 16) % UniformRes

\* n successive uniform draws of an op whose counter stands at ctr
RngDraws(key, ctr, n) == [j \in 1..n |-> RngUniform(key, ctr + j)]

\* ---- the network after the preprocessing layers (abstract arithmetic)
RECURSIVE SumRows(_)
SumRows(rows) ==
    IF rows = <<>> THEN 0
    ELSE SumSeq([x \in 1..Len(rows[1]) |-> SumSeq(rows[1][x])]) + SumRows(Tail(rows))

\* pretrained_base followed by Flatten: one feature per image
BaseFeatures(w, img) == (w + SumRows(img) \div Quantum) % (ProbRes + 1)

\* Dense(6, relu) and Dense(1, sigmoid): a probability in 0 .. ProbRes
HeadProb(w1, w2, feat) == (w1 * feat + w2 + feat) % (ProbRes + 1)

Forward(w, images) ==
    [j \in 1..Len(images) |->
        HeadProb(w["dense1"], w["dense2"], BaseFeatures(w["base"], images[j]))]

\* binary_accuracy with threshold 0.5: number of correct predictions
NumCorrect(probs, labels) ==
    Cardinality({j \in 1..Len(probs) : (2 * probs[j] > ProbRes) = (labels[j] = 1)})

\* loss summed over the batch (surrogate of binary cross-entropy)
AbsDiff(a, b) == IF a < b THEN b - a ELSE a - b
BatchLoss(probs, labels) ==
    Cardinality({q \in (1..Len(probs)) \X (1..ProbRes) :
                    q[2] <= AbsDiff(probs[q[1]], labels[q[1]] * ProbRes)})

\* gradient of one weight tensor, and the optimizer's update of it
Gradient(layer, probs, labels) ==
    (BatchLoss(probs, labels) + (IF layer = "dense1" THEN 1 ELSE 0)) % WeightVals
AdamUpdate(w, g) == (w + g + 1) % WeightVals

\* tf.keras.models.load_model: the weights stored in the artifact
load_model(artifact) == artifact

\* kernel initialiser of a Dense layer under the global seed
GlorotInit(global, layer) ==
    OpSeed(global, IF layer = "dense1" THEN 3 ELSE 4) % WeightVals

\* optimizer.apply_gradients over model.trainable_variables
ApplyGradients(w, probs, labels) ==
    [l \in WeightedLayers |->
        IF Trainable(l) THEN AdamUpdate(w[l], Gradient(l, probs, labels)) ELSE w[l]]

\* keras.metrics.Mean.result(): total / count as a float
MeanResult(total, count) == IF count = 0 THEN 0 ELSE (total * One) \div count

ZeroMetrics == [loss |-> 0, correct |-> 0, count |-> 0]
UpdateMetrics(m, probs, labels) ==
    [loss |-> m.loss + BatchLoss(probs, labels),
     correct |-> m.correct + NumCorrect(probs, labels),
     count |-> m.count + Len(probs)]

\* variant: the history keeps the latest epoch only
on_epoch_end_Overwrite(hist, logs) == <<logs>>

\* History.on_epoch_end: append the epoch's logs
on_epoch_end(hist, logs) == Append(hist, logs)

\* variant: the loop bound is off by one
FitLoopContinues_OffByOne(e) == e <= Epochs

\* for epoch in range(epochs)
FitLoopContinues(e) == e < Epochs

\* variant: validation calls the model in training mode
TestStepTraining_On == TRUE

\* training argument of the two step functions
TrainStepTraining == TRUE
TestStepTraining == FALSE

VARIABLES
    nfiles,      \* [Datasets -> number of files in the directory]
    cache,       \* [Datasets -> sequence of cached elements]
    buf,         \* [Datasets -> prefetch buffer]
    pos,         \* [Datasets -> elements the current iterator has produced]
    weights,     \* [WeightedLayers -> value]
    iterations,  \* optimizer.iterations
    rng,         \* [{"flip", "contrast"} -> numbers the op has produced]
    pc,          \* "train", "valid", "done"
    epoch,       \* completed epochs
    step,        \* [Datasets -> batches processed in this epoch]
    metrics,     \* compiled metrics' accumulators
    epoch_logs,  \* logs of the training phase of this epoch
    history,     \* History.history, one record per epoch
    call,        \* the latest call of the model
    fed,         \* images fed to train_step in this epoch
    weights0     \* weights as loaded / initialised

VARIABLES
    a_in,        \* the float batch given to the preprocessing layers
    a_x,         \* the tensor as it stands after the layers applied so far
    a_training,  \* the training argument of the call
    a_pc,        \* the layer that runs next
    a_log        \* per applied layer, the random decisions it took

VARIABLES
    r_seed,      \* [run -> global seed of the process]
    r_ctr,       \* [run -> [op -> numbers the op has produced]]
    r_dec,       \* [run -> augmentation decisions, one record per step]
    r_w,         \* [run -> head weights after the latest step]
    r_files      \* files in the training directory (shared by the runs)

augVars == <<a_in, a_x, a_training, a_pc, a_log>>
seedVars == <<r_seed, r_ctr, r_dec, r_w, r_files>>

fitVars == <<nfiles, cache, buf, pos, weights, iterations, rng, pc, epoch,
             step, metrics, epoch_logs, history, call, fed, weights0>>

Source(d) == image_dataset_from_directory(nfiles[d])

NoCall == [kind |-> "none", training |-> FALSE, inputs |-> <<>>, augmented |-> <<>>,
           labels |-> <<>>, epoch |-> 0]

FitInit ==
    /\ nfiles \in [Datasets -> 1..(MaxBatches * BatchSize)]
    /\ nfiles["train"] \in DirSizes(MaxBatches)
    /\ nfiles["valid"] \in DirSizes(MaxValBatches)
    /\ cache = [d \in Datasets |-> <<>>]
    /\ buf = [d \in Datasets |-> <<>>]
    /\ pos = [d \in Datasets |-> 0]
    /\ \E b \in 0..(WeightVals - 1) :
          weights = [l \in WeightedLayers |->
                       IF l = "base" THEN load_model(b) ELSE GlorotInit(set_seed, l)]
    /\ weights0 = weights
    /\ iterations = 0
    /\ rng = [op \in {"flip", "contrast"} |-> 0]
    /\ pc = "train"
    /\ epoch = 0
    /\ step = [d \in Datasets |-> 0]
    /\ metrics = ZeroMetrics
    /\ epoch_logs = [loss |-> 0, binary_accuracy |-> 0]
    /\ history = <<>>
    /\ call = NoCall
    /\ fed = <<>>

\* the prefetch stage pulls the next element through map and cache
Prefetch(d) ==
    /\ pc = d
    /\ pos[d] < NumBatches(nfiles[d])
    /\ Len(buf[d]) < PrefetchBuf
    /\ LET elem == IF pos[d] < Len(cache[d])
                   THEN cache[d][pos[d] + 1]
                   ELSE MapConvert(Source(d)[pos[d] + 1])
       IN  /\ cache' = [cache EXCEPT ![d] =
                          IF pos[d] < Len(cache[d]) THEN @ ELSE Append(@, elem)]
           /\ buf' = [buf EXCEPT ![d] = Append(@, elem)]
    /\ pos' = [pos EXCEPT ![d] = @ + 1]
    /\ UNCHANGED <<nfiles, weights, iterations, rng, pc, epoch, step,
                   metrics, epoch_logs, history, call, fed, weights0, augVars, seedVars>>

\* the random numbers the two preprocessing layers draw for a batch of n
FlipDraws(r, n) == RngDraws(OpSeed(set_seed, OpId("flip")), r["flip"], n)
ContrastUniform(r) == RngUniform(OpSeed(set_seed, OpId("contrast")), r["contrast"] + 1)

\* the random ops run only in the training branch of the layers
RngAfterCall(r, training, n) ==
    IF training THEN [r EXCEPT !["flip"] = @ + n, !["contrast"] = @ + 1] ELSE r

\* train_step on the next batch: forward pass through the layers in order,
\* loss, gradients of the trainable weights, optimizer step, metrics
TrainStep ==
    /\ pc = "train"
    /\ buf["train"] # <<>>
    /\ \E elem \in {Head(buf["train"])} :
       \E flipped \in {RandomFlip(elem.images, TrainStepTraining,
                                  FlipDraws(rng, Len(elem.images)))} :
       \E aug \in {RandomContrast(flipped, TrainStepTraining, ContrastUniform(rng))} :
       \E probs \in {Forward(weights, aug)} :
       \E m \in {UpdateMetrics(metrics, probs, elem.labels)} :
          /\ call' = [kind |-> "train", training |-> TrainStepTraining,
                      inputs |-> elem.images, augmented |-> aug,
                      labels |-> elem.labels, epoch |-> epoch]
          /\ rng' = RngAfterCall(rng, TrainStepTraining, Len(elem.images))
          /\ weights' = ApplyGradients(weights, probs, elem.labels)
          /\ fed' = fed \o elem.images
          /\ IF step["train"] + 1 = NumBatches(nfiles["train"])
             THEN /\ epoch_logs' = [loss |-> MeanResult(m.loss, m.count * ProbRes),
                                    binary_accuracy |-> MeanResult(m.correct, m.count)]
                  /\ metrics' = ZeroMetrics
                  /\ pc' = "valid"
             ELSE /\ metrics' = m
                  /\ UNCHANGED <<epoch_logs, pc>>
    /\ iterations' = iterations + 1
    /\ buf' = [buf EXCEPT !["train"] = Tail(@)]
    /\ step' = [step EXCEPT !["train"] = @ + 1]
    /\ UNCHANGED <<nfiles, cache, pos, epoch, history, weights0, augVars, seedVars>>

\* test_step on the next validation batch: forward pass and metrics only
TestStep ==
    /\ pc = "valid"
    /\ buf["valid"] # <<>>
    /\ \E elem \in {Head(buf["valid"])} :
       \E flipped \in {RandomFlip(elem.images, TestStepTraining,
                                  FlipDraws(rng, Len(elem.images)))} :
       \E aug \in {RandomContrast(flipped, TestStepTraining, ContrastUniform(rng))} :
       \E probs \in {Forward(weights, aug)} :
          /\ call' = [kind |-> "test", training |-> TestStepTraining,
                      inputs |-> elem.images, augmented |-> aug,
                      labels |-> elem.labels, epoch |-> epoch]
          /\ rng' = RngAfterCall(rng, TestStepTraining, Len(elem.images))
          /\ metrics' = UpdateMetrics(metrics, probs, elem.labels)
    /\ buf' = [buf EXCEPT !["valid"] = Tail(@)]
    /\ step' = [step EXCEPT !["valid"] = @ + 1]
    /\ UNCHANGED <<nfiles, cache, pos, weights, iterations, pc, epoch,
                   epoch_logs, history, fed, weights0, augVars, seedVars>>

\* end of evaluate, callbacks.on_epoch_end, next iteration of the epoch loop
EpochEnd ==
    /\ pc = "valid"
    /\ step["valid"] = NumBatches(nfiles["valid"])
    /\ history' = on_epoch_end(history,
                     [loss |-> epoch_logs.loss,
                      binary_accuracy |-> epoch_logs.binary_accuracy,
                      val_loss |-> MeanResult(metrics.loss, metrics.count * ProbRes),
                      val_binary_accuracy |-> MeanResult(metrics.correct, metrics.count)])
    /\ epoch' = epoch + 1
    /\ pc' = IF FitLoopContinues(epoch + 1) THEN "train" ELSE "done"
    /\ metrics' = ZeroMetrics
    /\ step' = [d \in Datasets |-> 0]
    /\ pos' = [d \in Datasets |-> 0]
    /\ fed' = <<>>
    /\ UNCHANGED <<nfiles, cache, buf, weights, iterations, rng,
                   epoch_logs, call, weights0, augVars, seedVars>>

FitNext ==
    \/ \E d \in Datasets : Prefetch(d)
    \/ TrainStep
    \/ TestStep
    \/ EpochEnd

\* ---- the other specifications leave the training run where it starts
Runs == {1, 2}
Ops == {"flip", "contrast"}

FitIdle ==
    /\ nfiles = [d \in Datasets |-> 1]
    /\ cache = [d \in Datasets |-> <<>>]
    /\ buf = [d \in Datasets |-> <<>>]
    /\ pos = [d \in Datasets |-> 0]
    /\ weights = [l \in WeightedLayers |-> 0]
    /\ weights0 = weights
    /\ iterations = 0
    /\ rng = [op \in Ops |-> 0]
    /\ pc = "idle"
    /\ epoch = 0
    /\ step = [d \in Datasets |-> 0]
    /\ metrics = ZeroMetrics
    /\ epoch_logs = [loss |-> 0, binary_accuracy |-> 0]
    /\ history = <<>>
    /\ call = NoCall
    /\ fed = <<>>

AugIdle ==
    /\ a_in = <<>>
    /\ a_x = <<>>
    /\ a_training = FALSE
    /\ a_pc = "idle"
    /\ a_log = <<>>

SeedIdle ==
    /\ r_seed = [r \in Runs |-> 0]
    /\ r_ctr = [r \in Runs |-> [op \in Ops |-> 0]]
    /\ r_dec = [r \in Runs |-> <<>>]
    /\ r_w = [r \in Runs |-> 0]
    /\ r_files = 0

vars == <<fitVars, augVars, seedVars>>

Init == FitInit /\ AugIdle /\ SeedIdle
Next == FitNext
Spec == Init /\ [][Next]_vars
\* the training loop is a single thread that runs until fit returns
FairSpec == Spec /\ WF_vars(Next)

\* ------------------------------------- the preprocessing layers on their own
\* float batches of n images of shape h x w x c, as the pipeline delivers them
FloatBatches ==
    UNION {[1..n -> {convert_image_dtype(img) : img \in Uint8Images(h, w, c)}] :
              <<n, h, w, c>> \in {s \in (1..MaxBatch) \X (1..MaxH) \X (1..MaxW) \X (1..MaxC) :
                                      s[1] * s[2] * s[3] * s[4] <= MaxValues}}

AugInit ==
    /\ a_in \in FloatBatches
    /\ a_x = a_in
    /\ a_training \in BOOLEAN
    /\ a_pc = "RandomFlip"
    /\ a_log = <<>>
    /\ FitIdle /\ SeedIdle

\* the first layer of the Sequential model
CallRandomFlip ==
    /\ a_pc = "RandomFlip"
    /\ \E us \in [1..Len(a_x) -> Uniform] :
          /\ a_x' = RandomFlip(a_x, a_training, us)
          /\ a_log' = Append(a_log,
                         [layer |-> "RandomFlip",
                          flips |-> [i \in 1..Len(a_x) |->
                                        a_training /\ FlipDecision(us[i])],
                          factor |-> Percent])
    /\ a_pc' = "RandomContrast"
    /\ UNCHANGED <<a_in, a_training, fitVars, seedVars>>

\* the second layer; its output goes to pretrained_base
CallRandomContrast ==
    /\ a_pc = "RandomContrast"
    /\ \E u \in Uniform :
          /\ a_x' = RandomContrast(a_x, a_training, u)
          /\ a_log' = Append(a_log,
                         [layer |-> "RandomContrast",
                          flips |-> [i \in 1..Len(a_x) |-> FALSE],
                          factor |-> IF a_training THEN ContrastDraw(u) ELSE Percent])
    /\ a_pc' = "pretrained_base"
    /\ UNCHANGED <<a_in, a_training, fitVars, seedVars>>

AugNext ==
    \/ CallRandomFlip
    \/ CallRandomContrast

SpecAug == AugInit /\ [][AugNext]_vars

\* ---- the flip layer applied to its own output, in training mode
FlipInit ==
    /\ a_in \in FloatBatches
    /\ a_x = a_in
    /\ a_training = TRUE
    /\ a_pc = "RandomFlip"
    /\ a_log = <<>>
    /\ FitIdle /\ SeedIdle

FlipAgain ==
    /\ a_pc = "RandomFlip"
    /\ Len(a_log) < MaxFlips
    /\ \E us \in [1..Len(a_x) -> Uniform] :
          /\ a_x' = RandomFlip(a_x, a_training, us)
          /\ a_log' = Append(a_log,
                         [layer |-> "RandomFlip",
                          flips |-> [i \in 1..Len(a_x) |-> FlipDecision(us[i])],
                          factor |-> Percent])
    /\ UNCHANGED <<a_in, a_training, a_pc, fitVars, seedVars>>

FlipNext == FlipAgain

SpecFlip == FlipInit /\ [][FlipNext]_vars

\* ---- two independent runs of the notebook over the same directory
\* passes each run makes
SeedPasses == 2

\* variant: set_seed() is not called, the seed comes from the process
ProcessSeed_Unset(r) == r

\* every run executes set_seed() before it builds the model
ProcessSeed(r) == set_seed

SeedInit ==
    /\ r_seed = [r \in Runs |-> ProcessSeed(r)]
    /\ r_ctr = [r \in Runs |-> [op \in Ops |-> 0]]
    /\ r_dec = [r \in Runs |-> <<>>]
    /\ r_w \in [Runs -> 0..(WeightVals - 1)]
    /\ r_files \in DirSizes(MaxBatches)
    /\ FitIdle /\ AugIdle

\* one training step of run r; TF_DETERMINISTIC_OPS is not set, so the
\* weights a step leaves are not a function of its inputs
RunStep(r) ==
    /\ Len(r_dec[r]) < SeedPasses * NumBatches(r_files)
    /\ LET b == (Len(r_dec[r]) % NumBatches(r_files)) + 1
           n == Len(DirectoryBatch(r_files, b).images)
           us == RngDraws(OpSeed(r_seed[r], OpId("flip")), r_ctr[r]["flip"], n)
           u == RngUniform(OpSeed(r_seed[r], OpId("contrast")), r_ctr[r]["contrast"] + 1)
       IN  /\ r_dec' = [r_dec EXCEPT ![r] =
                          Append(@, [flips |-> [j \in 1..n |-> FlipDecision(us[j])],
                                     factor |-> ContrastDraw(u)])]
           /\ r_ctr' = [r_ctr EXCEPT ![r] =
                          [op \in Ops |-> IF op = "flip" THEN @[op] + n ELSE @[op] + 1]]
    /\ \E w \in 0..(WeightVals - 1) : r_w' = [r_w EXCEPT ![r] = w]
    /\ UNCHANGED <<r_seed, r_files, fitVars, augVars>>

SeedNext == \E r \in Runs : RunStep(r)

SpecSeed == SeedInit /\ [][SeedNext]_vars

\* ================================================================ properties
AllValues(images) ==
    {images[i][r][x][k] : <<i, r, x, k>> \in
        {q \in (1..Len(images)) \X (1..MaxH + 1) \X (1..MaxW + 1) \X (1..MaxC + 1) :
            /\ q[2] <= Height(images[q[1]])
            /\ q[3] <= Width(images[q[1]])
            /\ q[4] <= Channels(images[q[1]])}}

SameShapes(a, b) ==
    /\ Len(a) = Len(b)
    /\ \A i \in 1..Len(a) : Shape(a[i]) = Shape(b[i])

\* C1: in inference mode (training = FALSE) the tensor after RandomFlip and
\* after RandomContrast, the one handed to pretrained_base, equals the input.
C1_InferenceIsIdentity == (~a_training) => a_x = a_in

\* an inference call has passed both layers on an image that a flip and a
\* contrast change would both alter
C1_Witness ==
    /\ ~a_training
    /\ a_pc = "pretrained_base"
    /\ a_in # <<>>
    /\ flip_left_right(a_in[1]) # a_in[1]
    /\ adjust_contrast(a_in, ContrastDraw(0)) # a_in
    /\ a_x = a_in

\* C7: an image that two successive applications of the flip both mirrored is
\* the original again, and a solid-colour image that was mirrored is unchanged.
Mirrored(i, n) == \A j \in 1..n : a_log[j].flips[i]
SolidColour(img) ==
    \A r \in 1..Height(img) : \A x \in 1..Width(img) : img[r][x] = img[1][1]
C7_FlipInvolution ==
    \A i \in 1..Len(a_in) :
        /\ (Len(a_log) = 2 /\ Mirrored(i, 2)) => a_x[i] = a_in[i]
        /\ (Len(a_log) = 1 /\ Mirrored(i, 1) /\ SolidColour(a_in[i])) => a_x[i] = a_in[i]

\* both images of a two-image batch were mirrored twice; the first is not
\* symmetric, so one mirroring alone had changed it
C7_Witness ==
    /\ Len(a_in) = 2
    /\ Len(a_log) = 2
    /\ Mirrored(1, 2) /\ Mirrored(2, 2)
    /\ flip_left_right(a_in[1]) # a_in[1]
    /\ a_x = a_in

\* C8 as stated: after the contrast layer ran in training mode the tensor has
\* the input's shape and every value lies in the valid range 0 .. 1.
C8_ShapeAndValidRange ==
    (a_training /\ a_pc = "pretrained_base") =>
        /\ SameShapes(a_x, a_in)
        /\ \A v \in AllValues(a_x) : 0 <= v /\ v <= One

\* C8 amended: the shape is preserved; values are not clipped: they lie in
\* -0.5 .. 1.5, and in 0 .. 1 whenever the drawn factor is at most 1.
C8_ShapeAndWidenedRange ==
    (a_training /\ a_pc = "pretrained_base") =>
        /\ SameShapes(a_x, a_in)
        /\ \A v \in AllValues(a_x) : 2 * v >= -One /\ 2 * v <= 3 * One
        /\ a_log[2].factor <= Percent =>
              \A v \in AllValues(a_x) : 0 <= v /\ v <= One

\* a factor above 1 pushed a value of a two-channel image out of 0 .. 1
C8_Witness ==
    /\ a_training
    /\ a_pc = "pretrained_base"
    /\ a_log[2].factor > Percent
    /\ SameShapes(a_x, a_in)
    /\ \E v \in AllValues(a_x) : v > One \/ v < 0

C2_BaseFrozen ==
    /\ weights["base"] = weights0["base"]
    /\ iterations = 0 => weights = weights0

\* training steps of more than one pass have changed the head
C2_Witness ==
    /\ epoch >= 1
    /\ iterations >= 3
    /\ weights["dense1"] # weights0["dense1"]
    /\ weights["dense2"] # weights0["dense2"]
    /\ weights["base"] = weights0["base"]

TrainBatches == NumBatches(nfiles["train"])
ValidBatches == NumBatches(nfiles["valid"])

\* C3: the history has one entry per completed pass (a pass is complete when
\* its validation has run), recorded entries never change, and an entry is
\* appended only when all batches of the pass have been processed.
C3_HistoryAppendOnly ==
    /\ [](Len(history) = epoch)
    /\ [](Len(history) = (iterations \div TrainBatches) - (IF pc = "valid" THEN 1 ELSE 0))
    /\ [][/\ Len(history') >= Len(history)
          /\ SubSeq(history', 1, Len(history)) = history
          /\ Len(history') # Len(history) =>
                /\ Len(history') = Len(history) + 1
                /\ step["train"] = TrainBatches
                /\ step["valid"] = ValidBatches]_vars

\* a third pass is in progress with two entries recorded
C3_Witness ==
    /\ Len(history) = 2
    /\ pc = "train"
    /\ step["train"] = 1
    /\ TrainBatches = 2

\* C4: the run ends, and it ends exactly when 30 passes are complete: never
\* with fewer, and no batch of a 31st pass is processed.
C4_TerminatesAfterEpochs ==
    /\ <>(pc = "done")
    /\ [](pc = "done" <=> epoch = Epochs)
    /\ [](epoch <= Epochs)
    /\ [](iterations <= Epochs * TrainBatches)
    /\ [][pc # "done"]_vars

\* fit has returned with 30 entries in the history
C4_Witness ==
    /\ pc = "done"
    /\ epoch = Epochs
    /\ Len(history) = Epochs
    /\ iterations = Epochs * TrainBatches

\* C5: a validation batch of pass k is processed after all training batches
\* of pass k, in inference mode and without changing a weight; a training
\* batch is processed in training mode and before the validation of its
\* pass; pass k+1 starts after the validation of pass k is complete.
C5_ValidationAfterTraining ==
    [][/\ step'["valid"] = step["valid"] + 1 =>
            /\ step["train"] = TrainBatches
            /\ call'.kind = "test" /\ ~call'.training
            /\ call'.augmented = call'.inputs
            /\ call'.epoch = epoch
            /\ weights' = weights /\ iterations' = iterations /\ rng' = rng
       /\ step'["train"] = step["train"] + 1 =>
            /\ step["valid"] = 0
            /\ call'.kind = "train" /\ call'.training
            /\ call'.epoch = epoch
       /\ epoch' # epoch =>
            /\ step["train"] = TrainBatches
            /\ step["valid"] = ValidBatches]_vars

\* the validation of a later pass is under way; the last training call of
\* that pass had augmented its batch
C5_Witness ==
    /\ epoch >= 1
    /\ pc = "valid"
    /\ step["valid"] = 1
    /\ call.kind = "test"
    /\ ~call.training
    /\ call.augmented = call.inputs

\* the float images of the training directory, in pipeline order
ConvertedImages(d) ==
    [i \in 1..nfiles[d] |-> convert_image_dtype(FileImage(i))]

HistoryInUnitRange ==
    \A i \in 1..Len(history) :
        /\ 0 <= history[i].binary_accuracy /\ history[i].binary_accuracy <= One
        /\ 0 <= history[i].val_binary_accuracy /\ history[i].val_binary_accuracy <= One

\* C9: in every pass each training image is fed exactly once, in batches of
\* at most 64 (all but the last of exactly 64); 64 files make one batch per
\* pass; every recorded accuracy lies in 0 .. 1.
C9_OneBatchPerPass ==
    /\ fed = SubSeq(ConvertedImages("train"), 1, Len(fed))
    /\ Len(fed) = Min(step["train"] * BatchSize, nfiles["train"])
    /\ pc = "valid" => fed = ConvertedImages("train")
    /\ step["train"] <= TrainBatches
    /\ iterations = epoch * TrainBatches + (IF pc = "done" THEN 0 ELSE step["train"])
    /\ call.kind # "none" => Len(call.inputs) \in 1..BatchSize
    /\ nfiles["train"] = BatchSize =>
          /\ step["train"] <= 1
          /\ pc = "valid" => step["train"] = 1
          /\ iterations <= epoch + 1
    /\ HistoryInUnitRange

\* 64 training files, third pass: its single batch has been processed
C9_Witness ==
    /\ nfiles["train"] = BatchSize
    /\ epoch = 2
    /\ pc = "valid"
    /\ step["train"] = 1
    /\ iterations = 3
    /\ Len(fed) = BatchSize
    /\ history[2].binary_accuracy \in 0..One

\* C10: what the cache holds is the converted directory content, images and
\* labels, in every pass; a training call gets the cached original as input
\* and its augmented tensor is a transformation of that original with
\* random numbers no earlier call has used.
CachedAsLoaded(d) ==
    \A b \in 1..Len(cache[d]) :
        /\ cache[d][b].labels = Source(d)[b].labels
        /\ cache[d][b].images =
              [j \in 1..Len(Source(d)[b].images) |->
                  convert_image_dtype(Source(d)[b].images[j])]
C10_CacheReadOnly ==
    /\ \A d \in Datasets : CachedAsLoaded(d)
    /\ epoch >= 1 => \A d \in Datasets : Len(cache[d]) = NumBatches(nfiles[d])
    /\ call.kind = "train" =>
          /\ step["train"] >= 1
          /\ call.inputs = cache["train"][step["train"]].images
          /\ call.labels = Source("train")[step["train"]].labels
          /\ call.augmented = adjust_contrast(
                random_flip_left_right(call.inputs,
                    RngDraws(OpSeed(set_seed, OpId("flip")),
                             rng["flip"] - Len(call.inputs), Len(call.inputs))),
                ContrastDraw(RngUniform(OpSeed(set_seed, OpId("contrast")),
                                        rng["contrast"])))
    /\ rng["contrast"] = iterations
    /\ rng["flip"] = epoch * nfiles["train"] + (IF pc = "done" THEN 0 ELSE Len(fed))

\* a batch read from the complete cache in a later pass was augmented, and
\* differently from its augmentation in the pass before
C10_Witness ==
    /\ epoch >= 2
    /\ call.kind = "train"
    /\ call.augmented # call.inputs
    /\ call.inputs = cache["train"][step["train"]].images
    /\ Len(cache["train"]) = TrainBatches

====
